---- MODULE Spec2Model ----
(***************************************************************************)
(* A model of src/src/commit.rs: the Commit handle over a content-addressed *)
(* object store, its accessors, its two parent iterators and amend.         *)
(*                                                                          *)
(* Representation                                                           *)
(*   bytes / text   a sequence of byte values 0..255                        *)
(*   Option<T>      <<>> for None, <<x>> for Some(x); a C pointer that may  *)
(*                  be NULL is represented the same way                     *)
(*   Oid            a natural number naming an object of the store          *)
(*   Commit handle  the Oid of the parsed object the handle points at       *)
(*   usize index    [hi, lo]: the value hi * 2^32 + lo (64-bit usize), so   *)
(*                  that the `as libc::c_uint` cast is exactly "keep lo"    *)
(*   outcome        [panic, val]: what a call returned, or that it aborted  *)
(***************************************************************************)
EXTENDS Naturals, Sequences, FiniteSets

VARIABLES odb,      \* the object store: odb[oid] is the commit stored under oid
          trees,    \* the tree ids the store can resolve
          refs,     \* the references: name -> Oid
          last,     \* the last call made and what it returned
          aborted,  \* TRUE once a call has panicked (the program is gone)
          iter,     \* the live Parents / ParentIds iterator, if any
          hist,     \* the indexes the iterator has resolved, in order
          amends    \* how many times amend has been called

vars == <<odb, trees, refs, last, aborted, iter, hist, amends>>

\* ---------------------------------------------------------------- bounds
\* amend is called at most MaxAmends times.
MaxAmends == 1
\* Indexes handed to parent(i) / parent_id(i) have low word 0..MaxIndex.
MaxIndex == 3

\* ------------------------------------------------------------ Rust values
None == <<>>
Some(x) == <<x>>

Ret(v) == [panic |-> FALSE, val |-> v]
Panic == [panic |-> TRUE, val |-> <<>>]

Ok(v) == [tag |-> "Ok", val |-> v, msg |-> ""]
Err(m) == [tag |-> "Err", val |-> 0, msg |-> m]

\* Option::unwrap / Result::unwrap: the value, or a panic.
unwrap_opt(o) == IF o = None THEN Panic ELSE Ret(o[1])
unwrap_res(r) == IF r.tag = "Ok" THEN Ret(r.val) ELSE Panic

IsCont(b) == b >= 128 /\ b <= 191

\* str::from_utf8(b).is_ok(): b is well-formed UTF-8 from position i on.
RECURSIVE Utf8From(_, _)
Utf8From(b, i) ==
  IF i > Len(b) THEN TRUE
  ELSE IF b[i] < 128 THEN Utf8From(b, i + 1)
  ELSE IF b[i] >= 194 /\ b[i] <= 223
    THEN i + 1 <= Len(b) /\ IsCont(b[i + 1]) /\ Utf8From(b, i + 2)
  ELSE IF b[i] >= 224 /\ b[i] <= 239
    THEN /\ i + 2 <= Len(b) /\ IsCont(b[i + 1]) /\ IsCont(b[i + 2])
         /\ (b[i] = 224 => b[i + 1] >= 160)
         /\ (b[i] = 237 => b[i + 1] <= 159)
         /\ Utf8From(b, i + 3)
  ELSE IF b[i] >= 240 /\ b[i] <= 244
    THEN /\ i + 3 <= Len(b)
         /\ IsCont(b[i + 1]) /\ IsCont(b[i + 2]) /\ IsCont(b[i + 3])
         /\ (b[i] = 240 => b[i + 1] >= 144)
         /\ (b[i] = 244 => b[i + 1] <= 143)
         /\ Utf8From(b, i + 4)
  ELSE FALSE

\* str::from_utf8(b): the text, or a Utf8Error.
str_from_utf8(b) == IF Utf8From(b, 1) THEN Ok(b) ELSE Err("invalid utf-8")

\* Result::ok
ok(r) == IF r.tag = "Ok" THEN Some(r.val) ELSE None

HasNul(s) == \E i \in 1..Len(s) : s[i] = 0

\* ::opt_cstr: None stays None; text with an interior nul is refused.
opt_cstr(o) ==
  IF o = None THEN Ok(None)
  ELSE IF HasNul(o[1]) THEN Err("nul byte in string")
  ELSE Ok(o)

\* ------------------------------------------------------- the object store
RECURSIVE StripLeadingNewlines(_)
StripLeadingNewlines(b) ==
  IF b # <<>> /\ b[1] = 10 THEN StripLeadingNewlines(Tail(b)) ELSE b

git_commit_id(c) == c
git_commit_tree_id(c) == odb[c].tree
git_commit_parentcount(c) == Len(odb[c].parents)
git_commit_author(c) == odb[c].author
git_commit_committer(c) == odb[c].committer
git_commit_message_raw(c) == Some(odb[c].message_raw)
git_commit_message(c) == Some(StripLeadingNewlines(odb[c].message_raw))
git_commit_message_encoding(c) == odb[c].encoding

\* The header as stored: tree, parent, author, committer and encoding lines.
RECURSIVE ParentLines(_)
ParentLines(ps) ==
  IF ps = <<>> THEN <<>>
  ELSE <<112, 48 + Head(ps), 10>> \o ParentLines(Tail(ps))

git_commit_raw_header(c) ==
  Some(<<116, 48 + odb[c].tree, 10>> \o ParentLines(odb[c].parents)
       \o <<97>> \o odb[c].author.name \o <<10>>
       \o <<99>> \o odb[c].committer.name \o <<10>>
       \o (IF odb[c].encoding = None THEN <<>>
           ELSE <<101>> \o odb[c].encoding[1] \o <<10>>))

\* The first paragraph of the message, its line breaks turned into spaces.
RECURSIVE FirstParagraph(_)
FirstParagraph(m) ==
  IF m = <<>> THEN <<>>
  ELSE IF m[1] = 10 /\ (Len(m) = 1 \/ m[2] = 10) THEN <<>>
  ELSE IF m[1] = 10 THEN <<32>> \o FirstParagraph(Tail(m))
  ELSE <<m[1]>> \o FirstParagraph(Tail(m))

git_commit_summary(c) == Some(FirstParagraph(git_commit_message(c)[1]))

\* A tree handle, or the store's error when the tree object is missing.
git_commit_tree(c) ==
  IF odb[c].tree \in trees THEN Ok(odb[c].tree) ELSE Err("object not found")

\* The n-th parent id (n: unsigned int), NULL when n is out of range.
git_commit_parent_id(c, n) ==
  IF n < Len(odb[c].parents) THEN Some(odb[c].parents[n + 1]) ELSE None

\* The n-th parent, looked up in the store.
git_commit_parent(c, n) ==
  LET id == git_commit_parent_id(c, n)
  IN IF id = None THEN Err("parent does not exist")
     ELSE IF id[1] \in DOMAIN odb THEN Ok(id[1])
     ELSE Err("object not found")

\* The oid the store gives to content: the oid of the object that already
\* holds it, or the next new one.
OidOf(content) ==
  IF \E o \in DOMAIN odb : odb[o] = content
  THEN CHOOSE o \in DOMAIN odb : odb[o] = content
  ELSE Len(odb) + 1

\* An amend that rewrites the object it was called on.
git_commit_amend_in_place(c, update_ref, author, committer, encoding, message, tree, io) ==
  LET old == odb[c]
      content ==
        [tree |-> IF tree = None THEN old.tree ELSE tree[1],
         parents |-> old.parents,
         author |-> IF author = None THEN old.author ELSE author[1],
         committer |-> IF committer = None THEN old.committer ELSE committer[1],
         encoding |-> IF encoding = None THEN old.encoding ELSE encoding,
         message_raw |-> IF message = None THEN old.message_raw ELSE message[1]]
  IN IF io = "ok"
       THEN [res |-> Ok(c), odb |-> [odb EXCEPT ![c] = content], refs |-> refs]
     ELSE [res |-> Err("failed to write object"), odb |-> odb, refs |-> refs]

\* git_commit_amend: a new commit that copies c, every given argument
\* replacing the field it names; the parents are always c's.  io is what
\* the store does with the request: "ok", "write_error" (the write is
\* rejected) or "ref_error" (the object is written, the reference update
\* is refused).
git_commit_amend(c, update_ref, author, committer, encoding, message, tree, io) ==
  LET old == odb[c]
      content ==
        [tree |-> IF tree = None THEN old.tree ELSE tree[1],
         parents |-> old.parents,
         author |-> IF author = None THEN git_commit_author(c) ELSE author[1],
         committer |-> IF committer = None THEN git_commit_committer(c)
                       ELSE committer[1],
         encoding |-> IF encoding = None THEN git_commit_message_encoding(c)
                      ELSE encoding,
         message_raw |-> IF message = None THEN git_commit_message(c)[1]
                         ELSE message[1]]
      id == OidOf(content)
      written == IF id \in DOMAIN odb THEN odb ELSE Append(odb, content)
  IN IF tree = None /\ git_commit_tree(c).tag = "Err"
       THEN [res |-> Err("object not found"), odb |-> odb, refs |-> refs]
     ELSE IF io = "write_error"
       THEN [res |-> Err("failed to write object"), odb |-> odb, refs |-> refs]
     ELSE IF update_ref # None /\ io = "ref_error"
       THEN [res |-> Err("failed to update reference"),
             odb |-> written, refs |-> refs]
     ELSE [res |-> Ok(id), odb |-> written,
           refs |-> IF update_ref = None THEN refs
                    ELSE [n \in DOMAIN refs \cup {update_ref[1]} |->
                            IF n = update_ref[1] THEN id ELSE refs[n]]]

\* ------------------------------------------------------------- commit.rs
\* A C string read by the store ends at its first nul.
RECURSIVE CStr(_)
CStr(s) == IF s = <<>> \/ s[1] = 0 THEN <<>> ELSE <<s[1]>> \o CStr(Tail(s))

\* amend with the message and the encoding handed over in each other's place.
amend_swapped(c, update_ref, author, committer, message_encoding, message, tree, io) ==
  LET u == opt_cstr(update_ref)
      e == opt_cstr(message_encoding)
      m == opt_cstr(message)
  IN IF u.tag = "Err" THEN [res |-> u, odb |-> odb, refs |-> refs]
     ELSE IF e.tag = "Err" THEN [res |-> e, odb |-> odb, refs |-> refs]
     ELSE IF m.tag = "Err" THEN [res |-> m, odb |-> odb, refs |-> refs]
     ELSE git_commit_amend(c, u.val, author, committer, m.val, e.val, tree, io)

\* amend handing an absent message over as the empty string, not as NULL.
amend_none_as_empty(c, update_ref, author, committer, message_encoding, message, tree, io) ==
  LET u == opt_cstr(update_ref)
      e == opt_cstr(message_encoding)
      m == opt_cstr(message)
  IN IF u.tag = "Err" THEN [res |-> u, odb |-> odb, refs |-> refs]
     ELSE IF e.tag = "Err" THEN [res |-> e, odb |-> odb, refs |-> refs]
     ELSE IF m.tag = "Err" THEN [res |-> m, odb |-> odb, refs |-> refs]
     ELSE git_commit_amend(c, u.val, author, committer, e.val,
                           IF m.val = None THEN Some(<<>>) ELSE m.val, tree, io)

\* amend that never hands update_ref over.
amend_no_ref(c, update_ref, author, committer, message_encoding, message, tree, io) ==
  LET u == opt_cstr(update_ref)
      e == opt_cstr(message_encoding)
      m == opt_cstr(message)
  IN IF u.tag = "Err" THEN [res |-> u, odb |-> odb, refs |-> refs]
     ELSE IF e.tag = "Err" THEN [res |-> e, odb |-> odb, refs |-> refs]
     ELSE IF m.tag = "Err" THEN [res |-> m, odb |-> odb, refs |-> refs]
     ELSE git_commit_amend(c, None, author, committer, e.val, m.val, tree, io)

\* amend that hands the message over unchecked: the store reads it as a C
\* string, up to its first nul.
amend_unchecked(c, update_ref, author, committer, message_encoding, message, tree, io) ==
  LET u == opt_cstr(update_ref)
      e == opt_cstr(message_encoding)
  IN IF u.tag = "Err" THEN [res |-> u, odb |-> odb, refs |-> refs]
     ELSE IF e.tag = "Err" THEN [res |-> e, odb |-> odb, refs |-> refs]
     ELSE git_commit_amend(c, u.val, author, committer, e.val,
                           IF message = None THEN None
                           ELSE Some(CStr(message[1])), tree, io)

\* Commit::amend.  Each try!(::opt_cstr(..)) returns its error before the
\* store is called; try_call! turns the store's error code into Err.  What
\* the call leaves behind is in odb and refs.
amend(c, update_ref, author, committer, message_encoding, message, tree, io) ==
  LET u == opt_cstr(update_ref)
      e == opt_cstr(message_encoding)
      m == opt_cstr(message)
  IN IF u.tag = "Err" THEN [res |-> u, odb |-> odb, refs |-> refs]
     ELSE IF e.tag = "Err" THEN [res |-> e, odb |-> odb, refs |-> refs]
     ELSE IF m.tag = "Err" THEN [res |-> m, odb |-> odb, refs |-> refs]
     ELSE git_commit_amend(c, u.val, author, committer, e.val, m.val, tree, io)

id(c) == git_commit_id(c)
tree_id(c) == git_commit_tree_id(c)
author(c) == git_commit_author(c)
committer(c) == git_commit_committer(c)
time(c) == git_commit_committer(c).when

tree(c) == Ret(git_commit_tree(c))

message_bytes(c) == unwrap_opt(git_commit_message(c))

message(c) ==
  LET b == message_bytes(c)
  IN IF b.panic THEN Panic ELSE Ret(ok(str_from_utf8(b.val)))

\* The bytes come from git_commit_message, and a failed decoding is unwrapped.
message_encoding(c) ==
  LET bytes == git_commit_message(c)
      text == unwrap_res(str_from_utf8(bytes[1]))
  IN IF bytes = None THEN Ret(None)
     ELSE IF text.panic THEN Panic
     ELSE Ret(Some(text.val))

message_raw_bytes(c) == unwrap_opt(git_commit_message_raw(c))

message_raw(c) ==
  LET b == message_raw_bytes(c)
  IN IF b.panic THEN Panic ELSE Ret(ok(str_from_utf8(b.val)))

raw_header_bytes(c) == unwrap_opt(git_commit_raw_header(c))

raw_header(c) ==
  LET b == raw_header_bytes(c)
  IN IF b.panic THEN Panic ELSE Ret(ok(str_from_utf8(b.val)))

summary_bytes(c) == git_commit_summary(c)

summary(c) ==
  LET s == summary_bytes(c)
  IN Ret(IF s = None THEN None ELSE ok(str_from_utf8(s[1])))

\* `i as libc::c_uint`: the low 32 bits of the index.
as_c_uint(i) == i.lo

\* A usize below 2^32, as the iterators' ranges produce.
usize(k) == [hi |-> 0, lo |-> k]

\* i >= n, for a usize i and a parent count n (which is below 2^32).
IndexAtLeast(i, n) == i.hi > 0 \/ i.lo >= n

parent(c, i) == git_commit_parent(c, as_c_uint(i))

parent_id(c, i) ==
  LET p == git_commit_parent_id(c, as_c_uint(i))
  IN IF p = None THEN Err("parent index out of bounds") ELSE Ok(p[1])

\* ------------------------------------------------------- the iterators
\* std::iter::Range<usize>
range(a, b) == [start |-> a, end |-> b]

RangeNext(r) ==
  IF r.start < r.end
  THEN [item |-> Some(r.start), range |-> [r EXCEPT !.start = r.start + 1]]
  ELSE [item |-> None, range |-> r]

RangeNextBack(r) ==
  IF r.start < r.end
  THEN [item |-> Some(r.end - 1), range |-> [r EXCEPT !.end = r.end - 1]]
  ELSE [item |-> None, range |-> r]

RangeSizeHint(r) ==
  LET n == IF r.start < r.end THEN r.end - r.start ELSE 0
  IN <<n, Some(n)>>

\* parents() with a range that starts one too far.
parents_from_one(c) ==
  [kind |-> "Parents", commit |-> c,
   range |-> range(1, git_commit_parentcount(c))]

parents(c) ==
  [kind |-> "Parents", commit |-> c,
   range |-> range(0, git_commit_parentcount(c))]

parent_ids(c) ==
  [kind |-> "ParentIds", commit |-> c,
   range |-> range(0, git_commit_parentcount(c))]

\* A step on an empty range: the iterator returns None.
Done(s) == [out |-> Ret(None), idx |-> None, range |-> s.range]

\* A step that took index s.item from the range: r is the accessor's
\* result for it, which the step unwraps.
Resolved(s, r) ==
  [out |-> IF unwrap_res(r).panic THEN Panic ELSE Ret(Some(unwrap_res(r).val)),
   idx |-> s.item,
   range |-> s.range]

Parents_next(it) ==
  LET s == RangeNext(it.range)
  IN IF s.item = None THEN Done(s)
     ELSE Resolved(s, parent(it.commit, usize(s.item[1])))

Parents_next_back(it) ==
  LET s == RangeNextBack(it.range)
  IN IF s.item = None THEN Done(s)
     ELSE Resolved(s, parent(it.commit, usize(s.item[1])))

ParentIds_next(it) ==
  LET s == RangeNext(it.range)
  IN IF s.item = None THEN Done(s)
     ELSE Resolved(s, parent_id(it.commit, usize(s.item[1])))

\* next_back that takes from the front of the range.
ParentIds_next_back_front(it) ==
  LET s == RangeNext(it.range)
  IN IF s.item = None THEN Done(s)
     ELSE Resolved(s, parent_id(it.commit, usize(s.item[1])))

ParentIds_next_back(it) ==
  LET s == RangeNextBack(it.range)
  IN IF s.item = None THEN Done(s)
     ELSE Resolved(s, parent_id(it.commit, usize(s.item[1])))

size_hint(it) == RangeSizeHint(it.range)

\* ------------------------------------------------------------- the inputs
\* Reference names: "H" (HEAD) and "T" (a tag); one with an interior nul.
RefArgs == {None, Some(<<72>>), Some(<<72, 0>>)}
SigArgs == {None, Some([name |-> <<66>>, email |-> <<98>>, when |-> 2])}
EncodingArgs == {None, Some(<<85>>), Some(<<85, 0>>)}
\* Messages: "n", "n" after a line break, and one with an interior nul.
MessageArgs == {None, Some(<<110>>), Some(<<10, 110>>), Some(<<110, 0, 120>>)}
TreeArgs == {None, Some(2)}
\* What the store may do with a request: a reference update can only be
\* refused when one is asked for.
StoreOutcomes(update_ref) ==
  IF update_ref = None THEN {"ok", "write_error"}
  ELSE {"ok", "write_error", "ref_error"}

\* The argument lists amend is called with: update_ref is any of RefArgs,
\* and of the five other arguments none, one or all five are given.
AmendArgs ==
  {a \in [update_ref : RefArgs, author : SigArgs, committer : SigArgs,
          message_encoding : EncodingArgs, message : MessageArgs,
          tree : TreeArgs] :
     Cardinality({f \in DOMAIN a \ {"update_ref"} : a[f] # None}) \in {0, 1, 5}}

NoIter == [kind |-> "none", commit |-> 0, range |-> [start |-> 0, end |-> 0]]

\* ------------------------------------------------------------------ Init
\* A repository of five commits: 1 the root ("i"), 2 a second root whose
\* message and author name are not UTF-8 and which declares an encoding,
\* 3 a child of 1, 4 a merge of 3, 1 and 2 (in that order), 5 a commit of a
\* damaged store: its tree and its second parent are missing.  HEAD is 3.
Init ==
  LET A == [name |-> <<65>>, email |-> <<97>>, when |-> 1]
      X == [name |-> <<255>>, email |-> <<97>>, when |-> 1]
  IN /\ odb = <<
            [tree |-> 1, parents |-> <<>>, author |-> A, committer |-> A,
             encoding |-> None, message_raw |-> <<105>>],
            [tree |-> 1, parents |-> <<>>, author |-> X, committer |-> A,
             encoding |-> Some(<<76>>), message_raw |-> <<10, 255>>],
            [tree |-> 2, parents |-> <<1>>, author |-> A, committer |-> A,
             encoding |-> None, message_raw |-> <<98>>],
            [tree |-> 2, parents |-> <<3, 1, 2>>, author |-> A, committer |-> A,
             encoding |-> Some(<<76>>), message_raw |-> <<10, 109>>],
            [tree |-> 3, parents |-> <<1, 9>>, author |-> A, committer |-> A,
             encoding |-> None, message_raw |-> <<195, 169>>] >>
     /\ trees = {1, 2}
     /\ refs = [n \in {<<72>>, <<84>>} |-> IF n = <<72>> THEN 3 ELSE 1]
     /\ last = [op |-> "init", c |-> 0, out |-> Ret(None)]
     /\ aborted = FALSE
     /\ iter = NoIter
     /\ hist = <<>>
     /\ amends = 0

\* --------------------------------------------------------------- actions
Amend ==
  /\ ~aborted
  /\ amends < MaxAmends
  /\ \E c \in DOMAIN odb, a \in AmendArgs :
     \E io \in StoreOutcomes(a.update_ref) :
       LET r == amend(c, a.update_ref, a.author, a.committer,
                      a.message_encoding, a.message, a.tree, io)
       IN /\ odb' = r.odb
          /\ refs' = r.refs
          /\ last' = [op |-> "amend", c |-> c, args |-> a, io |-> io,
                      out |-> Ret(r.res)]
  /\ amends' = amends + 1
  /\ UNCHANGED <<trees, aborted, iter, hist>>

\* A call of an accessor that reads the commit and returns.
Read(op, c, out) ==
  /\ last' = [op |-> op, c |-> c, out |-> out]
  /\ aborted' = out.panic
  /\ UNCHANGED <<odb, trees, refs, iter, hist, amends>>

Tree == ~aborted /\ \E c \in DOMAIN odb : Read("tree", c, tree(c))
Message == ~aborted /\ \E c \in DOMAIN odb : Read("message", c, message(c))
MessageEncoding ==
  ~aborted /\ \E c \in DOMAIN odb : Read("message_encoding", c, message_encoding(c))
MessageRaw == ~aborted /\ \E c \in DOMAIN odb : Read("message_raw", c, message_raw(c))
RawHeader == ~aborted /\ \E c \in DOMAIN odb : Read("raw_header", c, raw_header(c))
Summary == ~aborted /\ \E c \in DOMAIN odb : Read("summary", c, summary(c))

\* parent(i) and parent_id(i), for an index of either half of the usize range.
Indexes == [hi : 0..1, lo : 0..MaxIndex]

ReadAt(op, c, i, out) ==
  /\ last' = [op |-> op, c |-> c, i |-> i, out |-> out]
  /\ aborted' = out.panic
  /\ UNCHANGED <<odb, trees, refs, iter, hist, amends>>

Parent ==
  ~aborted /\ \E c \in DOMAIN odb, i \in Indexes :
                ReadAt("parent", c, i, Ret(parent(c, i)))
ParentId ==
  ~aborted /\ \E c \in DOMAIN odb, i \in Indexes :
                ReadAt("parent_id", c, i, Ret(parent_id(c, i)))

\* Commit::parents / Commit::parent_ids: a new iterator.
NewIter(op, it) ==
  /\ iter' = it
  /\ hist' = <<>>
  /\ last' = [op |-> op, c |-> it.commit, out |-> Ret(None)]
  /\ UNCHANGED <<odb, trees, refs, aborted, amends>>

Parents == ~aborted /\ \E c \in DOMAIN odb : NewIter("parents", parents(c))
ParentIds == ~aborted /\ \E c \in DOMAIN odb : NewIter("parent_ids", parent_ids(c))

\* One next / next_back of the live iterator; st is what the step did.
Advance(op, back, st) ==
  /\ iter' = [iter EXCEPT !.range = st.range]
  /\ hist' = IF st.idx = None THEN hist
             ELSE Append(hist, [idx |-> st.idx[1], back |-> back, out |-> st.out])
  /\ last' = [op |-> op, c |-> iter.commit, out |-> st.out]
  /\ aborted' = st.out.panic
  /\ UNCHANGED <<odb, trees, refs, amends>>

ParentsNext ==
  ~aborted /\ iter.kind = "Parents"
           /\ Advance("Parents.next", FALSE, Parents_next(iter))
ParentsNextBack ==
  ~aborted /\ iter.kind = "Parents"
           /\ Advance("Parents.next_back", TRUE, Parents_next_back(iter))
ParentIdsNext ==
  ~aborted /\ iter.kind = "ParentIds"
           /\ Advance("ParentIds.next", FALSE, ParentIds_next(iter))
ParentIdsNextBack ==
  ~aborted /\ iter.kind = "ParentIds"
           /\ Advance("ParentIds.next_back", TRUE, ParentIds_next_back(iter))

Next ==
  \/ Amend
  \/ Tree
  \/ Message
  \/ MessageEncoding
  \/ MessageRaw
  \/ RawHeader
  \/ Summary

Spec == Init /\ [][Next]_vars

\* The parent accessors and the two iterators, over the same repository.
IterNext ==
  \/ Parent
  \/ ParentId
  \/ Parents
  \/ ParentIds
  \/ ParentsNext
  \/ ParentsNextBack
  \/ ParentIdsNext
  \/ ParentIdsNextBack

IterSpec == Init /\ [][IterNext]_vars

\* ---------------------------------------------------------------- claims
\* The commit the last call was made on, and the id a successful amend
\* returned.
Target == last.c
NewId == last.out.val.val
AmendOk == last.op = "amend" /\ last.out.val.tag = "Ok"

\* parent_ids() of c as a list: parent_id(k) for k = 0 .. parentcount - 1.
ParentIdList(c) ==
  [k \in 1..git_commit_parentcount(c) |-> parent_id(c, usize(k - 1)).val]

OnlyMessage(a) ==
  /\ a.message # None
  /\ a.update_ref = None /\ a.author = None /\ a.committer = None
  /\ a.message_encoding = None /\ a.tree = None

AllAbsent(a) == \A f \in DOMAIN a : a[f] = None

\* The fields amend is to carry over, read through the accessors.
SameTreeParentsSignatures(n, c) ==
  /\ tree_id(n) = tree_id(c)
  /\ ParentIdList(n) = ParentIdList(c)
  /\ author(n) = author(c)
  /\ committer(n) = committer(c)

AmendStepOk == amends' = amends + 1 /\ last'.out.val.tag = "Ok"

C4_NulRejected ==
  [][(/\ amends' = amends + 1
      /\ \E f \in {"update_ref", "message_encoding", "message"} :
           last'.args[f] # None /\ HasNul(last'.args[f][1]))
       => /\ last'.out.val.tag = "Err"
          /\ odb' = odb
          /\ refs' = refs]_vars

\* amend was called with a message that holds a nul, everything else being
\* acceptable to a store that would have taken the write, and returned an
\* error.
C4_Witness ==
  /\ last.op = "amend" /\ last.io = "ok"
  /\ last.args.message = Some(<<110, 0, 120>>)
  /\ last.args.update_ref = Some(<<72>>)
  /\ last.args.message_encoding = None
  /\ tree(Target).val.tag = "Ok"
  /\ last.out.val.tag = "Err"

\* C8, as stated: message_encoding() returns the encoding the commit
\* declares, and None when it declares none.
C8_AsStated ==
  last.op = "message_encoding"
    => last.out = Ret(git_commit_message_encoding(Target))

\* C9, as stated: nothing aborts but a step of Parents or ParentIds.
C9_AsStated ==
  aborted => last.op \in {"Parents.next", "Parents.next_back",
                          "ParentIds.next", "ParentIds.next_back"}

C5_AsStated ==
  (/\ last.op \in {"parent", "parent_id"}
   /\ IndexAtLeast(last.i, git_commit_parentcount(Target)))
    => /\ last.out.val.tag = "Err"
       /\ last.op = "parent_id" => last.out.val.msg = "parent index out of bounds"

\* The iterator has returned None to a next(), after next() calls only.
ConsumedForward ==
  /\ iter.kind # "none" /\ ~aborted
  /\ last.op \in {"Parents.next", "ParentIds.next"}
  /\ last.out = Ret(None)
  /\ \A j \in 1..Len(hist) : ~hist[j].back

\* C6: consumed forward to its end, parent_ids() has yielded parentcount
\* ids, the k-th being parent_id(k), and parents() parentcount commits, the
\* id of the k-th being parent_id(k); nothing for a commit without parents.
C6_ForwardTraversal ==
  ConsumedForward
    => /\ Len(hist) = git_commit_parentcount(iter.commit)
       /\ \A k \in 1..Len(hist) :
            LET y == hist[k].out.val[1]
            IN parent_id(iter.commit, usize(k - 1))
                 = Ok(IF iter.kind = "Parents" THEN id(y) ELSE y)

\* parents() of the merge commit 4 was consumed forward to its end and
\* yielded its three parents.
C6_Witness ==
  /\ ConsumedForward /\ iter.kind = "Parents" /\ iter.commit = 4
  /\ Len(hist) = 3

\* C7: under any interleaving of next and next_back, no index is resolved
\* twice, next takes indexes 0, 1, .. and next_back n-1, n-2, .., size_hint
\* is exactly n less the number yielded, and once all n are yielded next
\* and next_back both return None.
C7_DoubleEnded ==
  iter.kind # "none" =>
    LET n == git_commit_parentcount(iter.commit)
        fw == SelectSeq(hist, LAMBDA h : ~h.back)
        bw == SelectSeq(hist, LAMBDA h : h.back)
        nx == IF iter.kind = "Parents" THEN Parents_next(iter)
              ELSE ParentIds_next(iter)
        nb == IF iter.kind = "Parents" THEN Parents_next_back(iter)
              ELSE ParentIds_next_back(iter)
    IN /\ Len(hist) <= n
       /\ \A j, k \in 1..Len(hist) : j # k => hist[j].idx # hist[k].idx
       /\ \A j \in 1..Len(fw) : fw[j].idx = j - 1
       /\ \A j \in 1..Len(bw) : bw[j].idx + j = n
       /\ ~aborted => size_hint(iter) = <<n - Len(hist), Some(n - Len(hist))>>
       /\ (~aborted /\ Len(hist) = n)
            => /\ nx.out = Ret(None) /\ nx.idx = None
               /\ nb.out = Ret(None) /\ nb.idx = None

\* parent_ids() of the merge commit 4 has yielded all three ids, from both
\* ends, and has then returned None.
C7_Witness ==
  /\ iter.kind = "ParentIds" /\ iter.commit = 4 /\ Len(hist) = 3
  /\ hist[1].back /\ ~hist[2].back /\ hist[3].back
  /\ last.op = "ParentIds.next" /\ last.out = Ret(None)

====
